---- MODULE Spec2Model ----
(***************************************************************************)
(* eidos: a rotating log writer.  The model covers the Logger (file        *)
(* handle, size counter, mutex), the directory holding the active file     *)
(* and its backups, the callers of Write / Rotate / Close, the rotation     *)
(* ticker goroutine, the postRotation goroutines (compression) and the     *)
(* callback daemon behind the callbackExecutor channel.                    *)
(*                                                                         *)
(* Files are inodes; the directory maps names to inodes, so a rename       *)
(* moves an inode to another name and a handle keeps pointing at the       *)
(* inode it opened.  Names are sequences of string tokens                  *)
(* (<<"app", ".log">>, <<"app", "-", "3", ".log">>).  A byte is a pair     *)
(* <<write id, index>>; the bytes of a file that was on disk before the    *)
(* logger started carry write id 0.                                        *)
(***************************************************************************)
EXTENDS Integers, Sequences, FiniteSets, TLC

\* ------------------------------------------------------------- bounds

\* bytes per "megabyte" in the model (the program's unit is 1024 * 1024)
megabyte == 2
\* calls (Write, Rotate, Close, ticker firings) started in one behaviour
MaxCalls == 2
\* the clock runs from 0 to MaxClock (one unit = one millisecond)
MaxClock == 1
\* offset of the local time zone from UTC, in clock units
TZOffset == 1
\* calls in one behaviour where the goroutines are followed to their end
MaxPipeCalls == 1
\* clock units per half hour in the retention sweep (the program's unit is
\* the nanosecond)
HalfHour == 1
\* entries in the log directory besides the active file when a sweep is
\* followed
MaxEntries == 2

\* ------------------------------------------------------------ processes

Callers == {"c1", "c2"}
Ticker == "ticker"
Procs == Callers \cup {Ticker}
NoProc == "none"

\* ------------------------------------------------------------ the state

VARIABLES
  RotationOption,  \* Logger.RotationOption: Size, Compress, CompressionLevel, LocalTime,
                   \* RetentionPeriod
  file,            \* Logger.file: the open handle, or NoFile
  size,            \* Logger.size
  mutex,           \* Logger.mutex: the process holding it, or NoProc
  dir,             \* the log directory: name -> inode
  inodes,          \* inode table: content, mode, number of open descriptors
  tasks,           \* postRotation goroutines started so far
  now,             \* currentTime()
  pc,              \* where each process is in its call
  op,              \* the call each process is making
  ret,             \* (n, err) the call is about to return
  ncalls,          \* calls started
  nwrites,         \* Write calls that took the lock
  opened,          \* history: content of the handle's file when it was opened
  appended,        \* history: bytes written through the current handle
  prevFailed,      \* history: the last finished call failed in a rotation step
  failing,         \* the system calls that can fail in this behaviour
  sweeps,          \* the goroutines that run cleanUpOldLogs
  requested,       \* history: the Options value New was called with
  second,          \* a second Logger of the process: its daemon and its sink
  lens,            \* the buffer lengths the callers write in this behaviour
  budget,          \* the number of calls made in this behaviour
  daemon,          \* the callback daemon: receiving, or inside callback.Execute
  sunk,            \* history: the calls of callback.Execute so far
  closed,          \* history: Close has returned and no Write or Rotate was called since
  renames          \* history: the renames of the log file to a backup name

vars == <<RotationOption, file, size, mutex, dir, inodes, tasks, now, pc, op,
          ret, ncalls, nwrites, opened, appended, prevFailed, failing, sweeps, requested, second, lens,
          budget, daemon, sunk, closed, renames>>

\* ------------------------------------------------------------ helpers

Max(a, b) == IF a > b THEN a ELSE b

NoFile == [ino |-> 0, append |-> FALSE, off |-> 0]
NoName == <<>>
Hole == <<0, 0>>

\* the buffer of write `id`, `n` bytes long
Buffer(id, n) == [k \in 1..n |-> <<id, k>>]

\* Logger.Filename: stem and extension
Filename == <<"app", ".log">>

\* os.FileMode(0666), and the mode of a file found on disk
DefaultMode == "0666"
FoundMode == "0600"

\* filepath.Ext: the last token when it is an extension
Ext(name) ==
  IF Len(name) > 1 /\ name[Len(name)] \in {".log", ".gz"}
  THEN <<name[Len(name)]>> ELSE <<>>

\* t.Format(backupTimeFormat)
Format(t) == ToString(t)

\* backupName: stem "-" timestamp ext, the timestamp in UTC or local time
backupName(name, localTime, t) ==
  LET ext == Ext(name)
      stem == SubSeq(name, 1, Len(name) - Len(ext))
      tt == IF localTime THEN t + TZOffset ELSE t
  IN  stem \o <<"-", Format(tt)>> \o ext

\* Logger.max
max(opts) == opts.Size * megabyte

\* ------------------------------------------------------------ filesystem

Exists(d, name) == name \in DOMAIN d

\* os.Rename: the inode moves to the new name, replacing what was there
Rename(d, old, new) ==
  [n \in (DOMAIN d \ {old}) \cup {new} |-> IF n = new THEN d[old] ELSE d[n]]

\* one more / one fewer open descriptor on inode i
Acquire(tab, i) == [tab EXCEPT ![i].opens = @ + 1]
Release(tab, i) == [tab EXCEPT ![i].opens = @ - 1]

\* bytes b written at position pos of content c
WriteAt(c, pos, b) ==
  [i \in 1..Max(Len(c), pos + Len(b)) |->
     IF i > pos /\ i <= pos + Len(b) THEN b[i - pos]
     ELSE IF i <= Len(c) THEN c[i] ELSE Hole]

\* os.OpenFile(name, O_CREATE|O_WRONLY|O_TRUNC, mode) without the descriptor:
\* an existing file is truncated and keeps its mode, a missing one is created
CreateTrunc(w, name, mode) ==
  IF Exists(w.dir, name)
  THEN [w EXCEPT !.inodes[w.dir[name]].content = <<>>]
  ELSE LET i == Len(w.inodes) + 1
       IN  [w EXCEPT !.inodes = Append(@, [content |-> <<>>, mode |-> mode, opens |-> 0]),
                     !.dir = [n \in DOMAIN w.dir \cup {name} |->
                                IF n = name THEN i ELSE w.dir[n]]]

\* the failures a step can meet
FaultKinds == {"stat", "openAppend", "statNew", "rename", "chownOpen",
               "chownChown", "create", "close", "write"}

Hit(w, kind) == [w EXCEPT !.hits = @ \cup {kind}]
Fail(w, kind) == [Hit(w, kind) EXCEPT !.err = TRUE]

\* ------------------------------------------------------------ the logger

\* close without the nil test: closing no file is an error
closeNilFails(w, fx) ==
  IF w.file = NoFile THEN [w EXCEPT !.err = TRUE]
  ELSE LET c == [w EXCEPT !.file = NoFile,
                          !.inodes = Release(@, w.file.ino)]
       IN  IF "close" \in fx THEN Fail(c, "close") ELSE c

\* close that leaves the descriptor open
closeLeaks(w, fx) ==
  IF w.file = NoFile THEN w
  ELSE LET c == [w EXCEPT !.file = NoFile]
       IN  IF "close" \in fx THEN Fail(c, "close") ELSE c

\* close that leaves l.file set
closeKeepsField(w, fx) ==
  IF w.file = NoFile THEN w
  ELSE LET c == [w EXCEPT !.inodes = Release(@, w.file.ino)]
       IN  IF "close" \in fx THEN Fail(c, "close") ELSE c

\* Logger.close
close(w, fx) ==
  IF w.file = NoFile THEN w
  ELSE LET c == [w EXCEPT !.file = NoFile,
                          !.inodes = Release(@, w.file.ino)]
       IN  IF "close" \in fx THEN Fail(c, "close") ELSE c

\* chown (linux): create or truncate the file, close it, set its owner
chown(w, name, mode, fx) ==
  IF "chownOpen" \in fx THEN Fail(w, "chownOpen")
  ELSE LET c == CreateTrunc(w, name, mode)
       IN  IF "chownChown" \in fx THEN Fail(c, "chownChown") ELSE c

\* a postRotation goroutine: its arguments, where it is, the inodes of the
\* source and the destination it has open, the variable err of compressLogFile,
\* whether compressLogFile returned an error and whether its deferred closure
\* was registered by then, the path it sends; and, as history, the inode the
\* rotation renamed to the backup name
Task(backup, opts, ino) ==
  [backup |-> backup, compress |-> opts.Compress, level |-> opts.CompressionLevel,
   pc |-> "start", src |-> 0, dst |-> 0, err |-> FALSE, failed |-> FALSE,
   registered |-> FALSE, path |-> NoName, ino |-> ino]

\* go postRotation(backupFileName, Compress, CompressionLevel)
Spawn(w, backup, opts) ==
  [w EXCEPT !.tasks = Append(@, Task(backup, opts, w.dir[backup]))]

\* the tail of openNewFile: create the file and adopt the handle
createAndAdopt(w, name, mode, fx) ==
  IF "create" \in fx THEN Fail(w, "create")
  ELSE LET c == CreateTrunc(w, name, mode)
           i == c.dir[name]
       IN  [c EXCEPT !.inodes = Acquire(@, i),
                     !.file = [ino |-> i, append |-> FALSE, off |-> 0],
                     !.size = 0]

\* openNewFile that creates the new file first and renames afterwards
openNewFileRenameLast(w, opts, t, fx) ==
  LET found == Exists(w.dir, Filename)
      mode == IF found THEN w.inodes[w.dir[Filename]].mode ELSE DefaultMode
      c == createAndAdopt(w, Filename, mode, fx)
      backup == backupName(Filename, opts.LocalTime, t)
  IN  IF c.err \/ ~found THEN c
      ELSE IF "rename" \in fx THEN Fail(c, "rename")
      ELSE Spawn([c EXCEPT !.dir = Rename(@, Filename, backup), !.bak = backup],
                 backup, opts)

\* Logger.openNewFile
openNewFile(w, opts, t, fx) ==
  LET found == Exists(w.dir, Filename)
  IN  IF found /\ "statNew" \notin fx
      THEN LET backup == backupName(Filename, opts.LocalTime, t)
               mode == w.inodes[w.dir[Filename]].mode
           IN  IF "rename" \in fx THEN Fail(w, "rename")
               ELSE LET r == [w EXCEPT !.dir = Rename(@, Filename, backup),
                                       !.bak = backup]
                        c == chown(r, Filename, mode, fx)
                    IN  IF c.err THEN c
                        ELSE createAndAdopt(Spawn(c, backup, opts), Filename, mode, fx)
      ELSE createAndAdopt(IF found THEN Hit(w, "statNew") ELSE w,
                          Filename, DefaultMode, fx)

\* openExistingOrNewFile that opens the existing file without O_APPEND
openExistingNoAppend(w, opts, t, fx) ==
  IF "stat" \in fx THEN Fail(w, "stat")
  ELSE IF ~Exists(w.dir, Filename) THEN openNewFile(w, opts, t, fx)
  ELSE IF "openAppend" \in fx THEN openNewFile(Hit(w, "openAppend"), opts, t, fx)
  ELSE LET i == w.dir[Filename]
       IN  [w EXCEPT !.inodes = Acquire(@, i),
                     !.file = [ino |-> i, append |-> FALSE, off |-> 0],
                     !.size = Len(w.inodes[i].content)]

\* openExistingOrNewFile that returns the error of the open for append
openExistingOrFail(w, opts, t, fx) ==
  IF "stat" \in fx THEN Fail(w, "stat")
  ELSE IF ~Exists(w.dir, Filename) THEN openNewFile(w, opts, t, fx)
  ELSE IF "openAppend" \in fx THEN Fail(w, "openAppend")
  ELSE LET i == w.dir[Filename]
       IN  [w EXCEPT !.inodes = Acquire(@, i),
                     !.file = [ino |-> i, append |-> TRUE, off |-> 0],
                     !.size = Len(w.inodes[i].content)]

\* openExistingOrNewFile that never reuses the file it finds
openAlwaysNew(w, opts, t, fx) ==
  IF "stat" \in fx THEN Fail(w, "stat") ELSE openNewFile(w, opts, t, fx)

\* openExistingOrNewFile that takes a reopened file for empty
openExistingSizeZero(w, opts, t, fx) ==
  IF "stat" \in fx THEN Fail(w, "stat")
  ELSE IF ~Exists(w.dir, Filename) THEN openNewFile(w, opts, t, fx)
  ELSE IF "openAppend" \in fx THEN openNewFile(Hit(w, "openAppend"), opts, t, fx)
  ELSE LET i == w.dir[Filename]
       IN  [w EXCEPT !.inodes = Acquire(@, i),
                     !.file = [ino |-> i, append |-> TRUE, off |-> 0],
                     !.size = 0]

\* Logger.openExistingOrNewFile
openExistingOrNewFile(w, opts, t, fx) ==
  IF "stat" \in fx THEN Fail(w, "stat")
  ELSE IF ~Exists(w.dir, Filename) THEN openNewFile(w, opts, t, fx)
  ELSE IF "openAppend" \in fx THEN openNewFile(Hit(w, "openAppend"), opts, t, fx)
  ELSE LET i == w.dir[Filename]
       IN  [w EXCEPT !.inodes = Acquire(@, i),
                     !.file = [ino |-> i, append |-> TRUE, off |-> 0],
                     !.size = Len(w.inodes[i].content)]

\* rotate that renames the file and goes on writing through the old handle
rotateStale(w, opts, t, fx) ==
  LET r == openNewFile(w, opts, t, fx)
  IN  IF r.err \/ w.file = NoFile THEN r
      ELSE [r EXCEPT !.file = w.file, !.inodes = Release(@, r.file.ino)]

\* Logger.rotate
rotate(w, opts, t, fx) ==
  LET c == close(w, fx)
  IN  IF c.err THEN c ELSE openNewFile(c, opts, t, fx)

\* the file write that counts the whole request, not the bytes written
fileWriteCountsRequest(w, p, n) ==
  LET i == w.file.ino
      c == w.inodes[i].content
      pos == IF w.file.append THEN Len(c) ELSE w.file.off
      d == [w EXCEPT !.inodes[i].content = WriteAt(c, pos, SubSeq(p, 1, n)),
                     !.file.off = pos + n,
                     !.size = @ + Len(p)]
  IN  IF n < Len(p) THEN Fail(d, "write") ELSE d

\* the file write that gives up the handle when the write fails
fileWriteClosing(w, p, n) ==
  LET i == w.file.ino
      c == w.inodes[i].content
      pos == IF w.file.append THEN Len(c) ELSE w.file.off
      d == [w EXCEPT !.inodes[i].content = WriteAt(c, pos, SubSeq(p, 1, n)),
                     !.file.off = pos + n,
                     !.size = @ + n]
  IN  IF n < Len(p)
      THEN Fail([d EXCEPT !.file = NoFile, !.inodes = Release(@, i)], "write")
      ELSE d

\* Write: n, err = l.file.Write(p); l.size += int64(n).  The file takes the
\* first n bytes of p; fewer than Len(p) is a failure
fileWrite(w, p, n) ==
  LET i == w.file.ino
      c == w.inodes[i].content
      pos == IF w.file.append THEN Len(c) ELSE w.file.off
      d == [w EXCEPT !.inodes[i].content = WriteAt(c, pos, SubSeq(p, 1, n)),
                     !.file.off = pos + n,
                     !.size = @ + n]
  IN  IF n < Len(p) THEN Fail(d, "write") ELSE d

\* a first test that lets through a request one byte over the maximum
exceedsMaxByTwo(writeRequestLength, maxFileSize) ==
  writeRequestLength > maxFileSize + 1

\* the first test of Write
exceedsMax(writeRequestLength, maxFileSize) ==
  writeRequestLength > maxFileSize

\* a rotation test that looks at the file size alone
overflowsAlready(sz, writeRequestLength, maxFileSize) ==
  sz > maxFileSize

\* a rotation test that rotates a file the buffer would fill exactly
overflowsAtMax(sz, writeRequestLength, maxFileSize) ==
  sz + writeRequestLength >= maxFileSize

\* the rotation test of Write
overflows(sz, writeRequestLength, maxFileSize) ==
  sz + writeRequestLength > maxFileSize

\* a lock that is always granted
canLockAlways(m) == TRUE

\* sync.Mutex.Lock can return
canLock(m) == m = NoProc

\* ------------------------------------------------------------ post rotation

\* os.Remove
Remove(d, name) == [n \in DOMAIN d \ {name} |-> d[n]]

\* postRotation: the name of the compressed file, "<stem><ext>.gz"
compressedName(backupFileName) ==
  LET ext == Ext(backupFileName)
  IN  SubSeq(backupFileName, 1, Len(backupFileName) - Len(ext)) \o ext \o <<".gz">>

\* what the gzip writer puts out for content c: a header carrying the level and
\* the content on io.Copy, the trailer on Close
GzipBody(c, level) == <<<<"gz", level>>>> \o c
GzipTrailer == <<<<"gz", "end">>>>

\* the failures compressLogFile can meet
CompressFaultKinds == {"srcOpen", "srcStat", "dstChownOpen", "dstChownChown",
                       "dstCreate", "copy", "gzClose", "srcClose", "remove"}

\* the failures of chown among fx, under the names chown knows
ChownFaults(fx) ==
  {k \in {"chownOpen", "chownChown"} :
     \/ k = "chownOpen" /\ "dstChownOpen" \in fx
     \/ k = "chownChown" /\ "dstChownChown" \in fx}

\* compressLogFile: file, err := os.Open(sourceFile); fileInfo, err := os.Stat(sourceFile)
compressOpen(w, i, fx) ==
  LET t == w.tasks[i]
  IN  IF "srcOpen" \in fx THEN Fail(w, "srcOpen")
      ELSE IF ~Exists(w.dir, t.backup) THEN [w EXCEPT !.err = TRUE]
      ELSE IF "srcStat" \in fx THEN Fail(w, "srcStat")
      ELSE [w EXCEPT !.tasks[i].src = w.dir[t.backup]]

\* compressLogFile: chown(destinationFile, fileInfo), os.OpenFile(destinationFile,
\* O_CREATE|O_TRUNC|O_WRONLY, mode) and gzip.NewWriterLevel, which leaves err nil
compressCreate(w, i, fx) ==
  LET t == w.tasks[i]
      dest == compressedName(t.backup)
      mode == w.inodes[t.src].mode
      c == chown(w, dest, mode, ChownFaults(fx))
  IN  IF c.err THEN c
      ELSE IF "dstCreate" \in fx THEN Fail(c, "dstCreate")
      ELSE LET d == CreateTrunc(c, dest, mode)
           IN  [d EXCEPT !.tasks[i].dst = d.dir[dest], !.tasks[i].err = FALSE]

\* compressLogFile: io.Copy(gzWriter, file) and gzWriter.Close().  A copy that
\* fails leaves the first half of the output in the destination.  The errors
\* live in variables of the if statements: the function's err is not assigned
compressCopy(w, i, fx) ==
  LET t == w.tasks[i]
      body == GzipBody(w.inodes[t.src].content, t.level)
  IN  IF "copy" \in fx
      THEN Fail([w EXCEPT !.inodes[t.dst].content =
                            SubSeq(body, 1, Len(body) \div 2)], "copy")
      ELSE IF "gzClose" \in fx
      THEN Fail([w EXCEPT !.inodes[t.dst].content = body], "gzClose")
      ELSE [w EXCEPT !.inodes[t.dst].content = body \o GzipTrailer]

\* the end of compressLogFile without the removal of the source
compressRemoveKeeps(w, i, fx) ==
  IF "srcClose" \in fx THEN Fail(w, "srcClose") ELSE w

\* compressLogFile: file.Close() and os.Remove(sourceFile)
compressRemove(w, i, fx) ==
  LET t == w.tasks[i]
  IN  IF "srcClose" \in fx THEN Fail(w, "srcClose")
      ELSE IF "remove" \in fx THEN Fail(w, "remove")
      ELSE IF ~Exists(w.dir, t.backup) THEN [w EXCEPT !.err = TRUE]
      ELSE [w EXCEPT !.dir = Remove(@, t.backup)]

\* the deferred closure of compressLogFile: when the function's variable err is
\* set it removes the destination
cleanup(w, i) ==
  LET dest == compressedName(w.tasks[i].backup)
  IN  IF w.tasks[i].err /\ Exists(w.dir, dest)
      THEN [w EXCEPT !.dir = Remove(@, dest)]
      ELSE w

\* postRotation that sends nothing when compressLogFile failed
compressReturnSilent(w, i, registered) ==
  LET t == w.tasks[i]
  IN  [w EXCEPT !.tasks[i] =
         [t EXCEPT !.path = IF w.err THEN NoName ELSE compressedName(t.backup),
                   !.failed = w.err,
                   !.registered = w.err /\ registered,
                   !.pc = IF w.err THEN "done" ELSE "send"]]

\* compressLogFile returns, its deferred calls run (the closure once it is
\* registered), and postRotation picks the path for the channel: the backup
\* after a failure, the compressed file otherwise
compressReturn(w, i, registered) ==
  LET c == IF registered THEN cleanup(w, i) ELSE w
      t == c.tasks[i]
  IN  [c EXCEPT !.tasks[i] =
         [t EXCEPT !.path = IF w.err THEN t.backup ELSE compressedName(t.backup),
                   !.failed = w.err,
                   !.registered = w.err /\ registered,
                   !.pc = "send"]]

\* ------------------------------------------------------------ the actions

\* the logger and the filesystem as one value, for the operators above
World ==
  [file |-> file, size |-> size, dir |-> dir, inodes |-> inodes, tasks |-> tasks,
   err |-> FALSE, hits |-> {}, bak |-> NoName, reopened |-> FALSE, over |-> FALSE]

\* the failure sets a step can meet: the sets fx that Run(fx) meets in full.
\* Failures are met one after the other, so every such set extends a smaller one.
Extend(K, Run(_), V) ==
  {fx \cup {k} : fx \in V, k \in K} \ V

Met(Run(_), C) == {fx \in C : Run(fx).hits = fx}

FaultSets(K, Run(_)) ==
  LET V1 == Met(Run, Extend(K, Run, {{}}))
      V2 == Met(Run, Extend(K, Run, V1))
      V3 == Met(Run, Extend(K, Run, V2))
      V4 == Met(Run, Extend(K, Run, V3))
  IN  {{}} \cup V1 \cup V2 \cup V3 \cup V4

OpenFaults == FaultKinds \ {"write"}
RotateFaults == FaultKinds \ {"stat", "openAppend", "write"}
CloseFaults == {"close"}

\* currentTime() is read at time t: the clock may have advanced since the last
\* reading
Clock(t) ==
  /\ t \in now..MaxClock
  /\ now' = t

\* the step's result r becomes the state; every failure of fx was met
Adopt(self, r, fx) ==
  /\ r.hits = fx
  /\ file' = r.file
  /\ size' = r.size
  /\ dir' = r.dir
  /\ inodes' = r.inodes
  /\ tasks' = r.tasks
  /\ renames' = IF r.bak # NoName THEN renames + 1 ELSE renames
  /\ op' = [op EXCEPT ![self].hits = @ \cup r.hits,
                      ![self].bak = IF r.bak # NoName THEN r.bak ELSE @,
                      ![self].over = @ \/ r.over]

\* history of a step that closed the handle or opened a new one
Reopened(r) ==
  /\ opened' = IF r.file = NoFile THEN <<>> ELSE r.inodes[r.file.ino].content
  /\ appended' = <<>>

\* the call returns (n, err): what is left is the deferred Unlock
Return(self, n, err) ==
  /\ ret' = [ret EXCEPT ![self] = [n |-> n, err |-> err]]
  /\ pc' = [pc EXCEPT ![self] = "unlock"]

Goto(self, label) ==
  /\ pc' = [pc EXCEPT ![self] = label]
  /\ UNCHANGED ret

\* a call: its kind, the length and the id of its buffer, and its history: the
\* failures it met, the backup name it renamed the file to, whether it found
\* the request to overflow the file, whether a handle was held when it began
IdleOp == [kind |-> "none", len |-> 0, id |-> 0, hits |-> {}, bak |-> NoName,
           over |-> FALSE, had |-> FALSE, wasClosed |-> FALSE]
NoRet == [n |-> 0, err |-> FALSE]

\* ------------------------------------------------------------ retention

Hour == 2 * HalfHour
Day == 24 * Hour
Year == 365 * Day

\* time.Second * 19800, what cleanUpOldLogs takes off the parsed time
Offset == 11 * HalfHour

\* the clock reading when the logger is constructed
Today == 40 * Day

\* the zero time.Time (year 1), and the largest time.Duration (about 292
\* years), at which Time.Sub saturates
ZeroTime == Today - 2025 * Year
MaxDuration == 292 * Year

\* t.Sub(u)
Sub(t, u) ==
  IF t - u > MaxDuration THEN MaxDuration
  ELSE IF u - t > MaxDuration THEN 0 - MaxDuration
  ELSE t - u

\* the ages, at construction, of the backups found in the directory
Ages(period) ==
  {Day, 7 * Day, 31 * Day,
   period * Day - Offset, period * Day - Offset + 1, period * Day, period * Day + 1}

\* the clock readings whose formatted form occurs in a file name
Stamps == (0..(MaxClock + TZOffset)) \cup {Today - a : a \in Ages(10)}

\* time.Parse(backupTimeFormat, s) with its error dropped: the time the text
\* is the format of, and the zero time for any other text
Parse(s) ==
  IF Len(s) = 1 /\ \E t \in Stamps : Format(t) = s[1]
  THEN CHOOSE t \in Stamps : Format(t) = s[1]
  ELSE ZeroTime

\* strings.HasPrefix, strings.HasSuffix
HasPrefix(name, prefix) ==
  Len(name) >= Len(prefix) /\ SubSeq(name, 1, Len(prefix)) = prefix
HasSuffix(name, suffix) ==
  /\ Len(name) >= Len(suffix)
  /\ SubSeq(name, Len(name) - Len(suffix) + 1, Len(name)) = suffix

\* cleanUpOldLogs: prefix and suffix of a rotated file
Prefix == SubSeq(Filename, 1, Len(Filename) - Len(Ext(Filename)))
Suffix(compress) == IF compress THEN Ext(Filename) \o <<".gz">> ELSE Ext(Filename)

\* a directory in the log directory
DirMode == "d0755"
IsDir(w, name) == w.inodes[w.dir[name]].mode = DirMode

\* a qualified test that takes the active file for a rotated one
qualifiedActive(name, compress) ==
  HasPrefix(name, Prefix) /\ HasSuffix(name, Suffix(compress))

\* a qualified test that looks at the prefix only
qualifiedPrefix(name, compress) ==
  HasPrefix(name, Prefix) /\ name # Filename

\* cleanUpOldLogs: "a qualified rotated file will have the defined prefix and
\* suffix"
qualified(name, compress) ==
  /\ HasPrefix(name, Prefix)
  /\ HasSuffix(name, Suffix(compress))
  /\ name # Filename

\* f.Name()[len(prefix)+1 : len(f.Name())-len(suffix)] is out of range
SliceFaults(name, compress) ==
  Len(Prefix) + 1 > Len(name) - Len(Suffix(compress))

\* the text between the prefix with one more char and the suffix
Middle(name, compress) ==
  SubSeq(name, Len(Prefix) + 2, Len(name) - Len(Suffix(compress)))

\* currentTime().Sub(timeStamp.Add(-time.Second*19800)) >
\* time.Duration(period)*time.Hour*24
expired(name, compress, period, t) ==
  Sub(t, Parse(Middle(name, compress)) - Offset) > period * Day

\* a goroutine running cleanUpOldLogs: where it is, the entries ReadDir
\* returned that it has not looked at yet; and, as history, the entries
\* ReadDir returned and the names for which os.Remove returned an error
NoSweep == [pc |-> "off", list |-> <<>>, seen |-> {}, failed |-> {}]

\* the goroutine New starts with go cleanUpOldLogs(...), and the daemon that
\* calls cleanUpOldLogs when retentionTicker fires
Sweepers == {"first", "retention"}

\* New: no goroutine when RetentionPeriod is 0
Retention(opts) ==
  [s \in Sweepers |->
     IF opts.RetentionPeriod > 0
     THEN [NoSweep EXCEPT !.pc = IF s = "first" THEN "read" ELSE "wait"]
     ELSE NoSweep]

\* the loop body of cleanUpOldLogs that removes without looking at the age
cleanUpEntryAnyAge(w, s, compress, period, t, fx) ==
  LET f == w.sweeps[s].list[1]
      rest == [w EXCEPT !.sweeps[s].list = Tail(@)]
  IN  IF f.isDir \/ ~qualified(f.name, compress) THEN rest
      ELSE IF SliceFaults(f.name, compress)
      THEN [w EXCEPT !.sweeps = [x \in Sweepers |-> [@[x] EXCEPT !.pc = "panic"]]]
      ELSE IF "sweepRemove" \in fx \/ ~Exists(w.dir, f.name)
      THEN [rest EXCEPT !.sweeps[s].failed = @ \cup {f.name}]
      ELSE [rest EXCEPT !.dir = Remove(@, f.name)]

\* the loop body of cleanUpOldLogs that returns when os.Remove fails
cleanUpEntryStops(w, s, compress, period, t, fx) ==
  LET f == w.sweeps[s].list[1]
      rest == [w EXCEPT !.sweeps[s].list = Tail(@)]
  IN  IF f.isDir \/ ~qualified(f.name, compress) THEN rest
      ELSE IF SliceFaults(f.name, compress)
      THEN [w EXCEPT !.sweeps = [x \in Sweepers |-> [@[x] EXCEPT !.pc = "panic"]]]
      ELSE IF ~expired(f.name, compress, period, t) THEN rest
      ELSE IF "sweepRemove" \in fx \/ ~Exists(w.dir, f.name)
      THEN [w EXCEPT !.sweeps[s].list = <<>>,
                     !.sweeps[s].failed = @ \cup {f.name}]
      ELSE [rest EXCEPT !.dir = Remove(@, f.name)]

\* the loop body of cleanUpOldLogs for the first entry of the list: skip a
\* directory and a name that does not qualify; a slice out of range is a
\* run-time panic, which ends the program; remove the file when it is older
\* than the period, ignoring the error of os.Remove
cleanUpEntry(w, s, compress, period, t, fx) ==
  LET f == w.sweeps[s].list[1]
      rest == [w EXCEPT !.sweeps[s].list = Tail(@)]
  IN  IF f.isDir \/ ~qualified(f.name, compress) THEN rest
      ELSE IF SliceFaults(f.name, compress)
      THEN [w EXCEPT !.sweeps = [x \in Sweepers |-> [@[x] EXCEPT !.pc = "panic"]]]
      ELSE IF ~expired(f.name, compress, period, t) THEN rest
      ELSE IF "sweepRemove" \in fx \/ ~Exists(w.dir, f.name)
      THEN [rest EXCEPT !.sweeps[s].failed = @ \cup {f.name}]
      ELSE [rest EXCEPT !.dir = Remove(@, f.name)]

\* the callback daemon blocked in <-callbackExecutor
Receiving == [pc |-> "recv", arg |-> NoName]

\* the callback daemon before New has started it
NotStarted == [pc |-> "off", arg |-> NoName]

\* no second Logger: New was called once. made: New was called again;
\* daemon, sunk: the second Logger's callback daemon and the calls of its
\* callback.Execute; stuck: the first daemon is blocked on the channel the
\* first New made; old: the goroutines blocked in a send on that channel
NoSecond == [made |-> FALSE, daemon |-> NotStarted, sunk |-> <<>>,
             stuck |-> FALSE, old |-> {}]

Init ==
  /\ RotationOption \in [Size : {1}, Compress : {FALSE},
                         CompressionLevel : {0}, LocalTime : {FALSE},
                         RetentionPeriod : {0}]
  /\ file = NoFile
  /\ size = 0
  /\ mutex = NoProc
  /\ \E n \in 0..(max(RotationOption) + 1) :
       \/ n = 0 /\ dir = [x \in {} |-> 0] /\ inodes = <<>>
       \/ /\ dir = [x \in {Filename} |-> 1]
          /\ inodes = <<[content |-> Buffer(0, n), mode |-> FoundMode, opens |-> 0]>>
  /\ tasks = <<>>
  /\ now = 0
  /\ pc = [p \in Procs |-> "idle"]
  /\ op = [p \in Procs |-> IdleOp]
  /\ ret = [p \in Procs |-> NoRet]
  /\ ncalls = 0
  /\ nwrites = 0
  /\ opened = <<>>
  /\ appended = <<>>
  /\ prevFailed = FALSE
  /\ failing = FaultKinds
  /\ lens = 0..(max(RotationOption) + 1)
  /\ budget = MaxCalls
  /\ daemon = Receiving
  /\ sunk = <<>>
  /\ closed = FALSE
  /\ renames = 0
  /\ sweeps = Retention(RotationOption)
  /\ requested = RotationOption
  /\ second = NoSecond

\* the first statement of a call after l.mutex.Lock()
Entry(kind) ==
  IF kind = "Write" THEN "check" ELSE IF kind = "Rotate" THEN "rotate" ELSE "close"

\* a caller calls Write(p), Rotate() or Close(): l.mutex.Lock() returns
Lock(self) ==
  /\ self \in Callers
  /\ pc[self] = "idle"
  /\ ncalls < budget
  /\ canLock(mutex)
  /\ mutex' = self
  /\ \E kind \in {"Write", "Rotate", "Close"} :
     \E len \in lens \cup {0} :
       /\ kind = "Write" \/ len = 0
       /\ op' = [op EXCEPT ![self] =
                   [IdleOp EXCEPT !.kind = kind, !.len = len,
                                  !.id = IF kind = "Write" THEN nwrites + 1 ELSE 0,
                                  !.had = (file # NoFile),
                                  !.wasClosed = closed]]
       /\ nwrites' = IF kind = "Write" THEN nwrites + 1 ELSE nwrites
       /\ pc' = [pc EXCEPT ![self] = Entry(kind)]
       /\ closed' = IF kind = "Close" THEN closed ELSE FALSE
  /\ ncalls' = ncalls + 1
  /\ UNCHANGED <<RotationOption, file, size, dir, inodes, tasks, now, ret,
                 opened, appended, prevFailed, failing, sweeps, requested, second, lens, budget, daemon,
                 sunk, renames>>

\* rotationTicker fires: the goroutine calls l.Rotate(), l.mutex.Lock() returns
TickerFire ==
  /\ pc[Ticker] = "idle"
  /\ ncalls < budget
  /\ canLock(mutex)
  /\ mutex' = Ticker
  /\ op' = [op EXCEPT ![Ticker] = [IdleOp EXCEPT !.kind = "Rotate",
                                                 !.had = (file # NoFile)]]
  /\ pc' = [pc EXCEPT ![Ticker] = Entry("Rotate")]
  /\ ncalls' = ncalls + 1
  /\ UNCHANGED <<RotationOption, file, size, dir, inodes, tasks, now, ret,
                 nwrites, opened, appended, prevFailed, failing, sweeps, requested, second, lens, budget,
                 daemon, sunk, closed, renames>>

\* Write up to the file write: refuse a request larger than the maximum file
\* size, open the file when no handle is held, rotate when the request would
\* take the file over the maximum
writePrepare(w, opts, t, len, fx) ==
  IF exceedsMax(len, max(opts)) THEN [w EXCEPT !.err = TRUE]
  ELSE LET o == IF w.file = NoFile
                THEN [openExistingOrNewFile(w, opts, t, fx) EXCEPT !.reopened = TRUE]
                ELSE w
       IN  IF o.err THEN o
           ELSE IF overflows(o.size, len, max(opts))
           THEN [rotate(o, opts, t, fx) EXCEPT !.reopened = TRUE, !.over = TRUE]
           ELSE o

WritePrepare(self) ==
  /\ pc[self] = "check"
  /\ LET Run(fx) == writePrepare(World, RotationOption, now, op[self].len, fx)
     IN  \E fx \in FaultSets(OpenFaults \cap failing, Run) :
         \E t \in IF Run(fx).bak = NoName THEN {now} ELSE now..MaxClock :
           LET r == writePrepare(World, RotationOption, t, op[self].len, fx)
           IN  /\ Clock(t)
               /\ Adopt(self, r, fx)
               /\ IF r.reopened THEN Reopened(r) ELSE UNCHANGED <<opened, appended>>
               /\ IF r.err THEN Return(self, 0, TRUE) ELSE Goto(self, "write")
  /\ UNCHANGED <<RotationOption, mutex, ncalls, nwrites, prevFailed, failing, sweeps, requested, second,
                 lens, budget, daemon, sunk, closed>>

\* Write: n, err = l.file.Write(p); l.size += int64(n)
WriteFile(self) ==
  /\ pc[self] = "write"
  /\ \E n \in 0..op[self].len :
       LET p == Buffer(op[self].id, op[self].len)
           r == fileWrite(World, p, n)
       IN  /\ r.hits \subseteq failing
           /\ Adopt(self, r, r.hits)
           /\ appended' = appended \o SubSeq(p, 1, n)
           /\ Return(self, n, r.err)
  /\ UNCHANGED <<RotationOption, mutex, now, ncalls, nwrites, opened, prevFailed,
                 failing, sweeps, requested, second, lens, budget, daemon, sunk, closed>>

\* a ticker that rotates only a file that has reached the maximum size
RotateWhenFull(self) ==
  /\ pc[self] = "rotate"
  /\ LET Run(fx) == rotate(World, RotationOption, now, fx)
         skip == self = Ticker /\ size < max(RotationOption)
     IN  \E fx \in IF skip THEN {{}} ELSE FaultSets(RotateFaults \cap failing, Run) :
         \E t \in IF skip \/ Run(fx).bak = NoName THEN {now} ELSE now..MaxClock :
           LET r == IF skip THEN World ELSE rotate(World, RotationOption, t, fx)
           IN  /\ Clock(t)
               /\ Adopt(self, r, fx)
               /\ Reopened(r)
               /\ Return(self, 0, r.err)
  /\ UNCHANGED <<RotationOption, mutex, ncalls, nwrites, prevFailed, failing, sweeps, requested, second,
                 lens, budget, daemon, sunk, closed>>

\* Rotate: return l.rotate()
Rotate(self) ==
  /\ pc[self] = "rotate"
  /\ LET Run(fx) == rotate(World, RotationOption, now, fx)
     IN  \E fx \in FaultSets(RotateFaults \cap failing, Run) :
         \E t \in IF Run(fx).bak = NoName THEN {now} ELSE now..MaxClock :
           LET r == rotate(World, RotationOption, t, fx)
           IN  /\ Clock(t)
               /\ Adopt(self, r, fx)
               /\ Reopened(r)
               /\ Return(self, 0, r.err)
  /\ UNCHANGED <<RotationOption, mutex, ncalls, nwrites, prevFailed, failing, sweeps, requested, second,
                 lens, budget, daemon, sunk, closed>>

\* Close: return l.close()
Close(self) ==
  /\ pc[self] = "close"
  /\ \E fx \in SUBSET (CloseFaults \cap failing) :
       LET r == close(World, fx)
       IN  /\ Adopt(self, r, fx)
           /\ Reopened(r)
           /\ Return(self, 0, r.err)
  /\ UNCHANGED <<RotationOption, mutex, now, ncalls, nwrites, prevFailed,
                 failing, sweeps, requested, second, lens, budget, daemon, sunk, closed>>

\* the rename and the create step of a rotation
RotationFaults == {"rename", "create"}

\* a call that returns only when every postRotation goroutine has finished
UnlockAfterTasks(self) ==
  /\ pc[self] = "unlock"
  /\ \A i \in DOMAIN tasks : tasks[i].pc = "done"
  /\ mutex' = NoProc
  /\ pc' = [pc EXCEPT ![self] = "idle"]
  /\ op' = [op EXCEPT ![self] = IdleOp]
  /\ ret' = [ret EXCEPT ![self] = NoRet]
  /\ prevFailed' = (op[self].hits \cap RotationFaults # {})
  /\ closed' = IF op[self].kind = "Close" THEN TRUE ELSE closed
  /\ UNCHANGED <<RotationOption, file, size, dir, inodes, tasks, now, ncalls,
                 nwrites, opened, appended, failing, sweeps, requested, second, lens, budget, daemon,
                 sunk, renames>>

\* a call that returns an error without releasing the mutex
UnlockUnlessError(self) ==
  /\ pc[self] = "unlock"
  /\ mutex' = IF ret[self].err THEN mutex ELSE NoProc
  /\ pc' = [pc EXCEPT ![self] = "idle"]
  /\ op' = [op EXCEPT ![self] = IdleOp]
  /\ ret' = [ret EXCEPT ![self] = NoRet]
  /\ prevFailed' = (op[self].hits \cap RotationFaults # {})
  /\ closed' = IF op[self].kind = "Close" THEN TRUE ELSE closed
  /\ UNCHANGED <<RotationOption, file, size, dir, inodes, tasks, now, ncalls,
                 nwrites, opened, appended, failing, sweeps, requested, second,
                 lens, budget, daemon, sunk, renames>>

\* defer l.mutex.Unlock(), and the call returns
Unlock(self) ==
  /\ pc[self] = "unlock"
  /\ mutex' = NoProc
  /\ pc' = [pc EXCEPT ![self] = "idle"]
  /\ op' = [op EXCEPT ![self] = IdleOp]
  /\ ret' = [ret EXCEPT ![self] = NoRet]
  /\ prevFailed' = (op[self].hits \cap RotationFaults # {})
  /\ closed' = IF op[self].kind = "Close" THEN TRUE ELSE closed
  /\ UNCHANGED <<RotationOption, file, size, dir, inodes, tasks, now, ncalls,
                 nwrites, opened, appended, failing, sweeps, requested, second, lens, budget, daemon,
                 sunk, renames>>

Next ==
  \/ \E self \in Callers : Lock(self)
  \/ TickerFire
  \/ \E self \in Procs : WritePrepare(self)
  \/ \E self \in Procs : WriteFile(self)
  \/ \E self \in Procs : Rotate(self)
  \/ \E self \in Procs : Close(self)
  \/ \E self \in Procs : Unlock(self)

Spec == Init /\ [][Next]_vars

\* ------------------------------------------------------------ the goroutines

\* what the logger's calls leave alone
LoggerVars == <<RotationOption, file, size, mutex, now, pc, op, ret, ncalls,
                nwrites, opened, appended, prevFailed, failing, sweeps, requested, second, lens, budget,
                closed, renames>>

\* a stage of compressLogFile in goroutine i ended as r: on an error, and
\* after the last stage, the function returns; otherwise the next stage follows
Stage(i, r, fx, registered, next) ==
  /\ LET d == IF r.err \/ next = "send"
              THEN compressReturn(r, i, registered)
              ELSE [r EXCEPT !.tasks[i].pc = next]
     IN  /\ dir' = d.dir
         /\ inodes' = d.inodes
         /\ tasks' = d.tasks
  /\ UNCHANGED <<LoggerVars, daemon, sunk>>

\* postRotation begins: without compression the backup name goes to the
\* channel; with it compressLogFile opens the backup
PostStart(i) ==
  /\ tasks[i].pc = "start"
  /\ IF tasks[i].compress
     THEN \E fx \in SUBSET ({"srcOpen", "srcStat"} \cap failing) :
            Stage(i, compressOpen(World, i, fx), fx, FALSE, "create")
     ELSE /\ tasks' = [tasks EXCEPT ![i].path = tasks[i].backup, ![i].pc = "send"]
          /\ UNCHANGED <<LoggerVars, dir, inodes, daemon, sunk>>

CompressCreate(i) ==
  /\ tasks[i].pc = "create"
  /\ \E fx \in SUBSET ({"dstChownOpen", "dstChownChown", "dstCreate"} \cap failing) :
       Stage(i, compressCreate(World, i, fx), fx, FALSE, "copy")

CompressCopy(i) ==
  /\ tasks[i].pc = "copy"
  /\ \E fx \in SUBSET ({"copy", "gzClose"} \cap failing) :
       Stage(i, compressCopy(World, i, fx), fx, TRUE, "remove")

CompressRemove(i) ==
  /\ tasks[i].pc = "remove"
  /\ \E fx \in SUBSET ({"srcClose", "remove"} \cap failing) :
       Stage(i, compressRemove(World, i, fx), fx, TRUE, "send")

\* a goroutine that calls callback.Execute itself instead of sending
ReceiveBusy(i) ==
  /\ tasks[i].pc = "send"
  /\ tasks' = [tasks EXCEPT ![i].pc = "done"]
  /\ daemon' = [pc |-> "exec", arg |-> tasks[i].path]
  /\ sunk' = Append(sunk, [task |-> i, path |-> tasks[i].path,
                           existed |-> Exists(dir, tasks[i].path)])
  /\ UNCHANGED <<LoggerVars, dir, inodes>>

\* a send that stays in the channel after the daemon has taken it
ReceiveAgain(i) ==
  /\ tasks[i].pc = "send"
  /\ daemon.pc = "recv"
  /\ daemon' = [pc |-> "exec", arg |-> tasks[i].path]
  /\ sunk' = Append(sunk, [task |-> i, path |-> tasks[i].path,
                           existed |-> Exists(dir, tasks[i].path)])
  /\ UNCHANGED <<LoggerVars, dir, inodes, tasks>>

\* callbackExecutor <- path meets <-callbackExecutor: the channel has no
\* buffer, so goroutine i gets past its send when the daemon receives, and
\* the daemon calls callback.Execute(path)
Receive(i) ==
  /\ tasks[i].pc = "send"
  /\ daemon.pc = "recv"
  /\ tasks' = [tasks EXCEPT ![i].pc = "done"]
  /\ daemon' = [pc |-> "exec", arg |-> tasks[i].path]
  /\ sunk' = Append(sunk, [task |-> i, path |-> tasks[i].path,
                           existed |-> Exists(dir, tasks[i].path)])
  /\ UNCHANGED <<LoggerVars, dir, inodes>>

\* callback.Execute returns and the daemon goes back to the channel
SinkReturn ==
  /\ daemon.pc = "exec"
  /\ daemon' = Receiving
  /\ UNCHANGED <<LoggerVars, dir, inodes, tasks, sunk>>

\* ------------------------------------------------------------ the sweeps

\* what a sweep works on
SweepWorld == [dir |-> dir, inodes |-> inodes, sweeps |-> sweeps]

\* what a sweep leaves alone
NotSwept == <<RotationOption, file, size, mutex, tasks, pc, op, ret, ncalls,
              nwrites, opened, appended, prevFailed, failing, requested, second,
              lens, budget, daemon, sunk, closed, renames>>

\* the sequences that list every element of S once
Orders(S) ==
  {q \in [1..Cardinality(S) -> S] : \A e \in S : \E i \in DOMAIN q : q[i] = e}

\* cleanUpOldLogs returns: the goroutine New started ends, the daemon goes
\* back to wait for retentionTicker
Returned(s) == IF s = "first" THEN "done" ELSE "wait"

\* the sweep ends when no entry is left
Finish(w, s) ==
  IF w.sweeps[s].pc = "each" /\ w.sweeps[s].list = <<>>
  THEN [w EXCEPT !.sweeps[s].pc = Returned(s)]
  ELSE w

\* the entries the directory can hold at construction besides the active
\* file: backups of several ages in both shapes, names whose middle part is
\* no timestamp, a name that is prefix and suffix only, files of another stem
\* or another extension, and directories named like a backup
Candidates(period) ==
  LET Shapes == {Suffix(FALSE), Suffix(TRUE)}
      old == Format(Today - 31 * Day)
      File(n) == [name |-> n, isDir |-> FALSE]
  IN  {File(Prefix \o <<"-", Format(Today - a)>> \o x) :
         a \in Ages(period), x \in Shapes}
      \cup {File(Prefix \o <<"-", "old">> \o x) : x \in Shapes}
      \cup {File(Prefix \o <<"l", "ication">> \o Suffix(FALSE)),
            File(Prefix \o Suffix(TRUE)),
            File(<<"web", "-", old>> \o Suffix(FALSE)),
            File(Prefix \o <<"-", old, ".txt">>)}
      \cup {[name |-> Prefix \o <<"-", old>> \o x, isDir |-> TRUE] : x \in Shapes}

\* the order of the chars that begin a token: '-', '.', the digits, the letters
Marks == <<"-", ".gz", ".log", ".txt">>
Words == <<"app", "ication", "l", "old", "web">>
Index(q, x) == CHOOSE i \in DOMAIN q : q[i] = x
Key(tok) ==
  IF \E i \in DOMAIN Marks : Marks[i] = tok THEN <<0, Index(Marks, tok)>>
  ELSE IF \E i \in DOMAIN Words : Words[i] = tok THEN <<2, Index(Words, tok)>>
  ELSE <<1, Parse(<<tok>>)>>
LessToken(a, b) ==
  Key(a)[1] < Key(b)[1] \/ (Key(a)[1] = Key(b)[1] /\ Key(a)[2] < Key(b)[2])

\* file name n sorts before file name m
Less(n, m) ==
  \/ Len(n) < Len(m) /\ SubSeq(m, 1, Len(n)) = n
  \/ \E k \in DOMAIN n \cap DOMAIN m :
       /\ SubSeq(n, 1, k - 1) = SubSeq(m, 1, k - 1)
       /\ LessToken(n[k], m[k])

\* every name a directory of the model can hold, sorted
Names == {Filename} \cup {e.name : e \in Candidates(10)}
ByName ==
  [i \in 1..Cardinality(Names) |->
     CHOOSE n \in Names : Cardinality({m \in Names : Less(m, n)}) = i - 1]

\* ioutil.ReadDir: the names of S sorted
Sorted(S) ==
  LET Listed(n) == n \in S
  IN  SelectSeq(ByName, Listed)

\* cleanUpOldLogs begins: ioutil.ReadDir lists the directory sorted by file
\* name; when it fails, the sweep returns
SweepRead(s) ==
  /\ sweeps[s].pc = "read"
  /\ \/ /\ "readDir" \in failing
        /\ sweeps' = [sweeps EXCEPT ![s] = [NoSweep EXCEPT !.pc = Returned(s)]]
     \/ LET q == Sorted(DOMAIN dir)
              list == [i \in DOMAIN q |->
                         [name |-> q[i], isDir |-> IsDir(SweepWorld, q[i])]]
              r == [SweepWorld EXCEPT !.sweeps[s] =
                      [pc |-> "each", list |-> list,
                       seen |-> {list[i] : i \in DOMAIN list},
                       failed |-> {}]]
          IN  sweeps' = Finish(r, s).sweeps
  /\ UNCHANGED <<NotSwept, dir, inodes, now>>

\* one turn of the loop over the entries
SweepEntry(s) ==
  /\ sweeps[s].pc = "each"
  /\ \E fx \in SUBSET ({"sweepRemove"} \cap failing) :
       LET r == Finish(cleanUpEntry(SweepWorld, s, RotationOption.Compress,
                                    RotationOption.RetentionPeriod, now, fx), s)
       IN  /\ dir' = r.dir
           /\ sweeps' = r.sweeps
  /\ UNCHANGED <<NotSwept, inodes, now>>

\* retentionTicker fires: the daemon calls cleanUpOldLogs
RetentionTick ==
  /\ sweeps["retention"].pc = "wait"
  /\ sweeps' = [sweeps EXCEPT !["retention"].pc = "read"]
  /\ UNCHANGED <<NotSwept, dir, inodes, now>>

\* the log directory with the active file as inode 1 and the entries of E
Seeded(E) ==
  LET q == CHOOSE o \in Orders(E) : TRUE
  IN  /\ dir = [n \in {Filename} \cup {e.name : e \in E} |->
                  IF n = Filename THEN 1
                  ELSE 1 + CHOOSE i \in DOMAIN q : q[i].name = n]
      /\ inodes = <<[content |-> Buffer(0, 1), mode |-> FoundMode, opens |-> 0]>>
                  \o [i \in DOMAIN q |->
                        [content |-> Buffer(0, 1),
                         mode |-> IF q[i].isDir THEN DirMode ELSE FoundMode,
                         opens |-> 0]]

\* a logger constructed with a retention period, over a directory that holds
\* the active file and up to MaxEntries other entries; no call is made, and
\* the sweeps fall into one reading of the clock, whose unit here is the
\* half hour
InitSweep ==
  /\ RotationOption \in [Size : {1}, Compress : BOOLEAN,
                         CompressionLevel : {0}, LocalTime : {FALSE},
                         RetentionPeriod : {10}]
  /\ file = NoFile
  /\ size = 0
  /\ mutex = NoProc
  /\ tasks = <<>>
  /\ pc = [p \in Procs |-> "idle"]
  /\ op = [p \in Procs |-> IdleOp]
  /\ ret = [p \in Procs |-> NoRet]
  /\ ncalls = 0
  /\ nwrites = 0
  /\ opened = <<>>
  /\ appended = <<>>
  /\ prevFailed = FALSE
  /\ daemon = Receiving
  /\ sunk = <<>>
  /\ closed = FALSE
  /\ renames = 0
  /\ sweeps = Retention(RotationOption)
  /\ requested = RotationOption
  /\ second = NoSecond
  /\ now = Today
  /\ failing = {"readDir", "sweepRemove"}
  /\ lens = {}
  /\ budget = 0
  /\ \E q \in [1..MaxEntries -> Candidates(RotationOption.RetentionPeriod)] :
       LET E == {q[i] : i \in DOMAIN q}
       IN  /\ Cardinality({e.name : e \in E}) = Cardinality(E)
           /\ Seeded(E)

NextSweep ==
  \/ \E s \in Sweepers : SweepRead(s)
  \/ \E s \in Sweepers : SweepEntry(s)
  \/ RetentionTick

SpecSweep == InitSweep /\ [][NextSweep]_vars

\* ------------------------------------------------------------ New

\* defaultMaxSize, in megabytes
defaultMaxSize == 100

\* the values of Options.CompressionLevel New is called with: the levels
\* compress/gzip knows, their neighbours, and the level of TestNew
Levels == (-3..10) \cup {100}

\* a check that lets every level through
compressionLevelAny(level) == level

\* New, "Checking for a valid compression level": 0, 1 and 9 stay, any
\* other value becomes 0
compressionLevel(level) == IF level \in {0, 1, 9} THEN level ELSE 0

\* New writes the defaults into the Options value it was given
newOptions(options) ==
  [options EXCEPT !.Size = IF @ = 0 THEN defaultMaxSize ELSE @,
                  !.CompressionLevel = compressionLevel(@)]

\* New(filename, options, callback) for a filename whose directory exists:
\* the options are completed, the callback daemon and the retention
\* goroutines are started, and the Logger is returned with a nil error
New ==
  /\ daemon = NotStarted
  /\ RotationOption' = newOptions(requested)
  /\ daemon' = Receiving
  /\ sweeps' = Retention(RotationOption')
  /\ UNCHANGED <<file, size, mutex, dir, inodes, tasks, now, pc, op, ret,
                 ncalls, nwrites, opened, appended, prevFailed, failing,
                 requested, second, lens, budget, sunk, closed, renames>>

\* the log directory: empty, or holding a log file of one byte
SmallDir ==
  \/ dir = [x \in {} |-> 0] /\ inodes = <<>>
  \/ /\ dir = [x \in {Filename} |-> 1]
     /\ inodes = <<[content |-> Buffer(0, 1), mode |-> FoundMode, opens |-> 0]>>

\* before New: an Options value of the caller, and no goroutine
InitNew ==
  /\ requested \in [Size : {0, 1}, Compress : BOOLEAN,
                     CompressionLevel : Levels, LocalTime : BOOLEAN,
                     RetentionPeriod : {0, 10}]
  /\ RotationOption = requested
  /\ file = NoFile
  /\ size = 0
  /\ mutex = NoProc
  /\ tasks = <<>>
  /\ pc = [p \in Procs |-> "idle"]
  /\ op = [p \in Procs |-> IdleOp]
  /\ ret = [p \in Procs |-> NoRet]
  /\ ncalls = 0
  /\ nwrites = 0
  /\ opened = <<>>
  /\ appended = <<>>
  /\ prevFailed = FALSE
  /\ daemon = NotStarted
  /\ sunk = <<>>
  /\ closed = FALSE
  /\ renames = 0
  /\ sweeps = [s \in Sweepers |-> NoSweep]
  /\ second = NoSecond
  /\ SmallDir
  /\ now = 0
  /\ failing = {}
  /\ lens = {}
  /\ budget = 0

SpecNew == InitNew /\ [][New]_vars

\* the logger right after New, before any call
Fresh ==
  /\ file = NoFile
  /\ size = 0
  /\ mutex = NoProc
  /\ tasks = <<>>
  /\ pc = [p \in Procs |-> "idle"]
  /\ op = [p \in Procs |-> IdleOp]
  /\ ret = [p \in Procs |-> NoRet]
  /\ ncalls = 0
  /\ nwrites = 0
  /\ opened = <<>>
  /\ appended = <<>>
  /\ prevFailed = FALSE
  /\ daemon = Receiving
  /\ sunk = <<>>
  /\ closed = FALSE
  /\ renames = 0
  /\ sweeps = Retention(RotationOption)
  /\ requested = RotationOption
  /\ second = NoSecond

\* ------------------------------------------------------------ no failure

\* a Logger without compression and without retention, over a directory that
\* is empty or holds a log file; no system call fails, and the callers write
\* buffers of every length up to the maximum
InitPlain ==
  /\ RotationOption \in [Size : {1}, Compress : {FALSE},
                         CompressionLevel : {0}, LocalTime : {FALSE},
                         RetentionPeriod : {0}]
  /\ Fresh
  /\ \E n \in 0..max(RotationOption) :
       \/ n = 0 /\ dir = [x \in {} |-> 0] /\ inodes = <<>>
       \/ /\ dir = [x \in {Filename} |-> 1]
          /\ inodes = <<[content |-> Buffer(0, n), mode |-> FoundMode,
                         opens |-> 0]>>
  /\ now = 0
  /\ failing = {}
  /\ lens = 1..max(RotationOption)
  /\ budget = MaxCalls

SpecPlain == InitPlain /\ [][Next]_vars

\* a Logger whose callers write, close and write again: one call more than
\* in Spec, buffers of every length up to the maximum, and os.Stat, the open
\* for append and the file write can fail
InitReopen ==
  /\ RotationOption \in [Size : {1}, Compress : {FALSE},
                         CompressionLevel : {0}, LocalTime : {FALSE},
                         RetentionPeriod : {0}]
  /\ Fresh
  /\ SmallDir
  /\ now = 0
  /\ failing = {"stat", "openAppend", "write"}
  /\ lens = 1..max(RotationOption)
  /\ budget = MaxCalls + 1

SpecReopen == InitReopen /\ [][Next]_vars

\* ------------------------------------------------------------ two Loggers

\* what the goroutines around callbackExecutor leave alone
ChannelFrame == <<RotationOption, file, size, mutex, now, pc, op, ret, ncalls,
                  nwrites, opened, appended, prevFailed, failing, sweeps,
                  requested, lens, budget, closed, renames, dir, inodes>>

\* the channels callbackExecutor has named: the one the first New made and
\* the one the second New made
FirstChannel == "first"
SecondChannel == "second"

\* the channel goroutine i sends its path on: the one callbackExecutor names
\* when the send is evaluated
SendsOn(i) ==
  IF second.made /\ i \notin second.old THEN SecondChannel ELSE FirstChannel

\* the channel the first Logger's daemon receives from
ReceivesOn ==
  IF second.made /\ ~second.stuck THEN SecondChannel ELSE FirstChannel

\* New is called for a second Logger, with a file and a callback of its
\* own: callbackExecutor = make(chan string) replaces the channel of the
\* process, and a second daemon receives from it. A goroutine already in its
\* send stays on the old channel, and so does the first daemon when it is
\* already in its receive; the assignment is not synchronised with them
NewSecond ==
  /\ daemon # NotStarted
  /\ ~second.made
  /\ \E stuck \in (IF daemon.pc = "recv" THEN BOOLEAN ELSE {FALSE}),
        old \in SUBSET {i \in DOMAIN tasks : tasks[i].pc = "send"} :
       second' = [made |-> TRUE, daemon |-> Receiving, sunk |-> <<>>,
                  stuck |-> stuck, old |-> old]
  /\ UNCHANGED <<ChannelFrame, tasks, daemon, sunk>>

\* the first Logger's daemon receives the path of goroutine i: both are on
\* the same channel
ReceiveFirst(i) ==
  /\ tasks[i].pc = "send"
  /\ daemon.pc = "recv"
  /\ SendsOn(i) = ReceivesOn
  /\ tasks' = [tasks EXCEPT ![i].pc = "done"]
  /\ daemon' = [pc |-> "exec", arg |-> tasks[i].path]
  /\ sunk' = Append(sunk, [task |-> i, path |-> tasks[i].path,
                           existed |-> Exists(dir, tasks[i].path)])
  /\ second' = [second EXCEPT !.stuck = FALSE, !.old = @ \ {i}]
  /\ UNCHANGED ChannelFrame

\* the second Logger's daemon receives the path of goroutine i and calls the
\* second Logger's callback.Execute
ReceiveSecond(i) ==
  /\ tasks[i].pc = "send"
  /\ second.daemon.pc = "recv"
  /\ SendsOn(i) = SecondChannel
  /\ tasks' = [tasks EXCEPT ![i].pc = "done"]
  /\ second' = [second EXCEPT
                  !.daemon = [pc |-> "exec", arg |-> tasks[i].path],
                  !.sunk = Append(@, [task |-> i, path |-> tasks[i].path])]
  /\ UNCHANGED <<ChannelFrame, daemon, sunk>>

\* the second Logger's callback.Execute returns
SinkReturnSecond ==
  /\ second.daemon.pc = "exec"
  /\ second' = [second EXCEPT !.daemon = Receiving]
  /\ UNCHANGED <<ChannelFrame, tasks, daemon, sunk>>

\* the first Logger without compression and without failures, its callers
\* writing buffers of the maximum size; the second Logger, once made, is
\* never called
InitTwo ==
  /\ RotationOption \in [Size : {1}, Compress : {FALSE},
                         CompressionLevel : {0}, LocalTime : {FALSE},
                         RetentionPeriod : {0}]
  /\ Fresh
  /\ SmallDir
  /\ now = 0
  /\ failing = {}
  /\ lens = {max(RotationOption)}
  /\ budget = MaxCalls

NextTwo ==
  \/ Next
  \/ \E i \in DOMAIN tasks : PostStart(i)
  \/ NewSecond
  \/ \E i \in DOMAIN tasks : ReceiveFirst(i)
  \/ \E i \in DOMAIN tasks : ReceiveSecond(i)
  \/ SinkReturn
  \/ SinkReturnSecond

SpecTwo == InitTwo /\ [][NextTwo]_vars

\* with or without compression, buffers of the maximum size, MaxCalls calls,
\* and the calls of compressLogFile can fail
InitPost ==
  /\ RotationOption \in [Size : {1}, Compress : BOOLEAN,
                         CompressionLevel : {0}, LocalTime : {FALSE},
                         RetentionPeriod : {0}]
  /\ Fresh
  /\ SmallDir
  /\ now = 0
  /\ failing = CompressFaultKinds
  /\ lens = {max(RotationOption)}
  /\ budget = MaxCalls

NextPost ==
  \/ Next
  \/ \E i \in DOMAIN tasks : PostStart(i)
  \/ \E i \in DOMAIN tasks : CompressCreate(i)
  \/ \E i \in DOMAIN tasks : CompressCopy(i)
  \/ \E i \in DOMAIN tasks : CompressRemove(i)
  \/ \E i \in DOMAIN tasks : Receive(i)
  \/ SinkReturn

SpecPost == InitPost /\ [][NextPost]_vars

\* as InitPost, with MaxPipeCalls calls
InitPipe ==
  /\ RotationOption \in [Size : {1}, Compress : BOOLEAN,
                         CompressionLevel : {0}, LocalTime : {FALSE},
                         RetentionPeriod : {0}]
  /\ Fresh
  /\ SmallDir
  /\ now = 0
  /\ failing = CompressFaultKinds
  /\ lens = {max(RotationOption)}
  /\ budget = MaxPipeCalls

SpecPipe == InitPipe /\ [][NextPost]_vars

\* a step of a call that holds the mutex
LoggerStep ==
  \E self \in Procs :
    \/ WritePrepare(self)
    \/ WriteFile(self)
    \/ Rotate(self)
    \/ Close(self)
    \/ Unlock(self)

\* a step of a postRotation goroutine, its send included
TaskStep ==
  \E i \in DOMAIN tasks :
    \/ PostStart(i)
    \/ CompressCreate(i)
    \/ CompressCopy(i)
    \/ CompressRemove(i)
    \/ Receive(i)

\* the scheduler: a call that holds the mutex goes on, and so does a goroutine
\* that can run
FairLogger == WF_vars(LoggerStep)
FairTasks == WF_vars(TaskStep)

\* a call is under way: its goroutine holds the mutex and can run
Busy == \E p \in Procs : pc[p] # "idle"

\* a call under way takes a step
Moves == \E p \in Procs : pc[p] # "idle" /\ pc'[p] # pc[p]

\* WF_vars(LoggerStep) written out: a step of a call can be taken exactly
\* when a call is under way, and it moves that call
FairCalls == []<>(~Busy) \/ []<><<Moves>>_vars

\* the system calls whose failure ends a Write, a Rotate or a Close with an
\* error: in the open, in the rotation, in the write and in the close
ReturnFaults == {"openAppend", "rename", "create", "write", "close"}

\* a Logger whose calls can fail in each of their parts, with buffers of the
\* maximum size and buffers Write refuses
InitFair ==
  /\ RotationOption \in [Size : {1}, Compress : {FALSE},
                         CompressionLevel : {0}, LocalTime : {FALSE},
                         RetentionPeriod : {0}]
  /\ Fresh
  /\ SmallDir
  /\ now = 0
  /\ failing = ReturnFaults
  /\ lens = {max(RotationOption), max(RotationOption) + 1}
  /\ budget = MaxCalls

\* the calls of one Logger under a scheduler that lets a call that holds the
\* mutex go on
SpecFair == InitFair /\ [][Next]_vars /\ FairCalls

\* callback.Execute returns
FairSink == WF_vars(SinkReturn)

\* the rotation's chown and the final open can fail, and so can the copy and
\* the removal in compressLogFile; the clock stands still, so that every
\* rotation reads the same time
InitNotify ==
  /\ RotationOption \in [Size : {1}, Compress : BOOLEAN,
                         CompressionLevel : {0}, LocalTime : {FALSE},
                         RetentionPeriod : {0}]
  /\ Fresh
  /\ SmallDir
  /\ now = MaxClock
  /\ failing = {"chownChown", "create", "copy", "remove"}
  /\ lens = {max(RotationOption)}
  /\ budget = MaxPipeCalls

\* the goroutines are scheduled fairly and the sink always returns
SpecNotify ==
  InitNotify /\ [][NextPost]_vars /\ FairLogger /\ FairTasks /\ FairSink

\* rotations with compression and no failing call, a log file of one byte,
\* MaxCalls calls, the clock standing still
InitWriters ==
  /\ RotationOption \in [Size : {1}, Compress : {TRUE},
                         CompressionLevel : {0}, LocalTime : {FALSE},
                         RetentionPeriod : {0}]
  /\ Fresh
  /\ dir = [x \in {Filename} |-> 1]
  /\ inodes = <<[content |-> Buffer(0, 1), mode |-> FoundMode, opens |-> 0]>>
  /\ now = MaxClock
  /\ failing = {}
  /\ lens = {max(RotationOption)}
  /\ budget = MaxCalls

\* the logger's calls are scheduled fairly; the goroutines and the sink may
\* stop anywhere
SpecWriters == InitWriters /\ [][NextPost]_vars /\ FairLogger

\* ------------------------------------------------------------ properties

maxSizeBytes == max(RotationOption)

Returning(p) == pc[p] = "unlock"

ActiveExists == Exists(dir, Filename)
ActiveContent == IF ActiveExists THEN inodes[dir[Filename]].content ELSE <<>>

\* the names in the directory other than the active file's
Backups == DOMAIN dir \ {Filename}

\* inode i holds a byte of write id
HoldsByteOf(i, id) ==
  \E k \in DOMAIN inodes[i].content : inodes[i].content[k][1] = id

\* the open descriptors
LiveHandles ==
  UNION {{<<i, k>> : k \in 1..inodes[i].opens} : i \in DOMAIN inodes}

\* C1: at most one descriptor is open at any time, and it is the one the
\* logger holds in l.file; with no handle held none is open, so a handle is
\* opened only after the previous one was closed and cleared.
C1_SingleLiveHandle ==
  LiveHandles = IF file = NoFile THEN {} ELSE {<<file.ino, 1>>}

\* a rotation that began with a handle held has returned with a new one
C1_Witness ==
  \E p \in Procs :
    /\ Returning(p) /\ op[p].had /\ op[p].bak # NoName
    /\ ~ret[p].err /\ file # NoFile

\* C2: at most one of the Write, Rotate, Close and ticker calls is between its
\* Lock and its Unlock, and it is the one holding the mutex.
C2_MutualExclusion ==
  /\ \A p, q \in Procs : (pc[p] # "idle" /\ pc[q] # "idle") => p = q
  /\ \A p \in Procs : pc[p] # "idle" <=> mutex = p

\* a Write is between its rotation test and its file write while the other
\* processes could still call
C2_Witness ==
  \E p \in Callers :
    /\ pc[p] = "write" /\ ncalls < MaxCalls
    /\ \A q \in Procs \ {p} : pc[q] = "idle"

\* C3 as stated: after every Write returns, the active file is at most
\* maxSizeBytes long.
C3_EveryWriteLeavesFileWithinMax ==
  \A p \in Procs :
    (Returning(p) /\ op[p].kind = "Write") => Len(ActiveContent) <= maxSizeBytes

\* C3, amended: after every Write that returns without error, or with the
\* error of a short file write, the active file exists and is at most
\* maxSizeBytes long.
C3_WriteThatWroteLeavesFileWithinMax ==
  \A p \in Procs :
    (Returning(p) /\ op[p].kind = "Write"
       /\ (~ret[p].err \/ "write" \in op[p].hits))
    => (ActiveExists /\ Len(ActiveContent) <= maxSizeBytes)

\* a Write of maxSizeBytes bytes that rotated for overflow has returned nil
C3_Witness ==
  \E p \in Procs :
    /\ Returning(p) /\ op[p].kind = "Write" /\ ~ret[p].err
    /\ op[p].over /\ op[p].len = maxSizeBytes

\* C4: when a Write found its request to overflow the file, its bytes are in
\* the active file only, none in a backup, and once the file write was reached
\* the new active file holds exactly the bytes written.
C4_OverflowingWriteLandsInNewFile ==
  \A p \in Procs :
    (Returning(p) /\ op[p].kind = "Write" /\ op[p].over) =>
      /\ \A i \in DOMAIN inodes :
           HoldsByteOf(i, op[p].id) => (ActiveExists /\ i = dir[Filename])
      /\ (~ret[p].err \/ "write" \in op[p].hits) =>
           ActiveContent = SubSeq(Buffer(op[p].id, op[p].len), 1, ret[p].n)

\* an overflowing Write has returned nil with the old content under a backup name
C4_Witness ==
  \E p \in Procs :
    /\ Returning(p) /\ op[p].kind = "Write" /\ op[p].over /\ ~ret[p].err
    /\ ret[p].n > 0 /\ op[p].bak \in DOMAIN dir
    /\ Len(inodes[dir[op[p].bak]].content) > 0

\* C5: a Write whose buffer is longer than maxSizeBytes changes nothing from
\* its Lock to its Unlock (handle, size, directory, files, goroutines), never
\* reaches the file write, and returns 0 bytes and an error.
C5_OversizedWriteChangesNothing ==
  [][\A p \in Procs :
       (op[p].len > maxSizeBytes \/ op'[p].len > maxSizeBytes) =>
         /\ UNCHANGED <<file, size, dir, inodes, tasks>>
         /\ pc'[p] # "write"
         /\ pc'[p] = "unlock" => ret'[p] = [n |-> 0, err |-> TRUE]]_vars

\* an oversized Write has returned its error and there is still no file
C5_Witness ==
  \E p \in Procs :
    /\ Returning(p) /\ op[p].len > maxSizeBytes /\ ret[p].err
    /\ ~ActiveExists /\ inodes = <<>>

C7_ContentIsOpenContentThenWrites ==
  file # NoFile => (ActiveExists /\ ActiveContent = opened \o appended)

\* two Writes have appended to the same file, one after the other
C7_Witness ==
  /\ file # NoFile /\ Len(appended) = 2
  /\ appended[1][1] = 1 /\ appended[2][1] = 2
  /\ \A p \in Procs : pc[p] = "unlock" => ~ret[p].err

\* C8: a held handle is on the file at the active path, and the content of a
\* file under a backup name never changes.
C8_HandleIsOnActivePath ==
  /\ [](file # NoFile => (ActiveExists /\ dir[Filename] = file.ino))
  /\ [][\A n \in Backups :
          (n \in DOMAIN dir' /\ dir'[n] = dir[n]) =>
            inodes'[dir[n]].content = inodes[dir[n]].content]_vars

\* bytes were written through the handle opened by a rotation
C8_Witness ==
  /\ file # NoFile /\ Backups # {} /\ Len(appended) > 0
  /\ dir[Filename] = file.ino

\* C9: a call whose rotation failed in the rename or the create step returns
\* the error, a Write among them 0 bytes with none of its buffer on disk, and
\* no handle is held; and a Write that meets no failure returns nil with all
\* its bytes written, also right after such a failed call.
C9_FailedRotationLeavesUnopened ==
  \A p \in Procs :
    Returning(p) =>
      /\ (op[p].hits \cap RotationFaults # {}) =>
           /\ ret[p] = [n |-> 0, err |-> TRUE]
           /\ file = NoFile
           /\ op[p].kind = "Write" =>
                \A i \in DOMAIN inodes : ~HoldsByteOf(i, op[p].id)
      /\ (op[p].kind = "Write" /\ op[p].hits = {} /\ op[p].len <= maxSizeBytes) =>
           /\ ret[p] = [n |-> op[p].len, err |-> FALSE]
           /\ file # NoFile

\* the call before failed in a rotation step, and this Write has succeeded
C9_Witness ==
  \E p \in Procs :
    /\ Returning(p) /\ prevFailed /\ op[p].kind = "Write"
    /\ op[p].hits = {} /\ ~ret[p].err /\ ret[p].n = op[p].len /\ op[p].len > 0

\* C10 as stated: a Write whose file write failed returns the error and leaves
\* the logger with no handle.
C10_FailedWriteLeavesUnopened ==
  \A p \in Procs :
    (Returning(p) /\ "write" \in op[p].hits) => (ret[p].err /\ file = NoFile)

\* C10, amended: a Write whose file write failed returns the error with the
\* count of the bytes written, and the logger keeps its handle on the active
\* file, l.size counting those bytes.
C10_FailedWriteKeepsHandle ==
  \A p \in Procs :
    (Returning(p) /\ "write" \in op[p].hits) =>
      /\ ret[p].err /\ ret[p].n < op[p].len
      /\ file # NoFile /\ ActiveExists /\ dir[Filename] = file.ino
      /\ size = Len(ActiveContent)

\* a Write whose file write failed outright has returned
C10_Witness ==
  \E p \in Procs :
    /\ Returning(p) /\ "write" \in op[p].hits /\ ret[p].n = 0 /\ file # NoFile

\* C11 as stated: once Close has returned and until the next call of Write or
\* Rotate, no handle is held and the ticker goroutine runs no rotation.
C11_CloseStopsTimers ==
  closed => (file = NoFile /\ pc[Ticker] = "idle")

\* C12: a Close that found no handle returns nil and changes neither the
\* logger nor the directory; a Close whose file close did not fail returns
\* nil; and when a Close returns no handle is held.
C12_CloseIsIdempotent ==
  /\ [](\A p \in Procs :
         (Returning(p) /\ op[p].kind = "Close") =>
           /\ file = NoFile
           /\ "close" \notin op[p].hits => ~ret[p].err)
  /\ [][\A p \in Procs :
          (pc[p] = "close" /\ ~op[p].had) =>
            /\ UNCHANGED <<file, size, dir, inodes, tasks>>
            /\ ret'[p] = [n |-> 0, err |-> FALSE]]_vars

\* a second Close in a row has returned nil, having found no handle
C12_Witness ==
  \E p \in Procs :
    /\ Returning(p) /\ op[p].kind = "Close" /\ closed /\ ~op[p].had
    /\ ~ret[p].err /\ file = NoFile

\* the calls of the sink made for goroutine i
Calls(i) == {k \in DOMAIN sunk : sunk[k].task = i}

\* the path goroutine i ends with: the compressed file when compression was
\* asked for and worked, the backup otherwise
FinalPath(i) ==
  IF tasks[i].compress /\ ~tasks[i].failed
  THEN compressedName(tasks[i].backup) ELSE tasks[i].backup

\* goroutine i has been reported to the sink, once, with its final path
Reported(i) ==
  /\ i \in DOMAIN tasks
  /\ Cardinality(Calls(i)) = 1
  /\ \A k \in Calls(i) : sunk[k].path = FinalPath(i)

\* C13 as stated: every rotation that renamed the log file to a backup is
\* followed by a call of the sink: again and again the calls of the sink have
\* caught up with the renames.
C13_EveryRenameIsReported ==
  []<>(Len(sunk) >= renames)

\* C13, amended: every rotation that renamed the log file and got through
\* chown, which is when it starts its goroutine, is followed by exactly one
\* call of the sink for that goroutine, with its final path: again and again
\* every goroutine started so far has been reported, and none is ever reported
\* twice.
C13_EveryStartedTaskIsReportedOnce ==
  /\ [](\A p \in Procs :
         (Returning(p) /\ op[p].bak # NoName
            /\ op[p].hits \cap {"chownOpen", "chownChown"} = {}) =>
           (tasks # <<>> /\ tasks[Len(tasks)].backup = op[p].bak))
  /\ []<>(\A i \in DOMAIN tasks : Reported(i))
  /\ [](\A i \in DOMAIN tasks : Cardinality(Calls(i)) <= 1)

\* the goroutine of a rotation has been reported with the compressed file
C13_Witness ==
  \E i \in DOMAIN tasks :
    /\ Reported(i) /\ tasks[i].compress /\ ~tasks[i].failed
    /\ daemon.pc = "recv"

\* the backups in directory d: the names ending in the log file's extension,
\* the log file's own name apart
BackupNames(d) == {n \in DOMAIN d \ {Filename} : Ext(n) = Ext(Filename)}

\* C14: the calls of the sink never outnumber the renames of the log file to
\* a backup, no goroutine is reported twice, a goroutine starts only in a step
\* that renames, and a step that renames nothing (a rotation that found no
\* log file among them) adds no backup, no goroutine and no call of the sink
\* beyond those.
C14_AtMostOneCallPerRotation ==
  /\ [](/\ Len(sunk) <= renames
        /\ Len(tasks) <= renames
        /\ \A i \in DOMAIN tasks : Cardinality(Calls(i)) <= 1)
  /\ [][renames' = renames =>
          /\ Len(tasks') = Len(tasks)
          /\ BackupNames(dir') \subseteq BackupNames(dir)]_vars

\* the one rotation that renamed the log file has been reported
C14_Witness ==
  /\ renames = 1 /\ Len(sunk) = 1 /\ Len(tasks) = 1
  /\ tasks[1].pc = "done"

\* C15: in the step in which the pipeline of goroutine i ends without failure,
\* exactly one of the backup and its compressed file is on disk and it is the
\* path the goroutine sends: the backup without compression, the compressed
\* file with it, the backup being gone; and the sink is called with the path
\* the goroutine sent.
C15_FinishedPipelineLeavesOneFile ==
  /\ [][\A i \in DOMAIN tasks :
          (tasks[i].pc # "send" /\ tasks'[i].pc = "send" /\ ~tasks'[i].failed) =>
            LET b == tasks[i].backup
                gz == compressedName(b)
            IN  IF tasks[i].compress
                THEN /\ tasks'[i].path = gz
                     /\ Exists(dir', gz) /\ ~Exists(dir', b)
                ELSE /\ tasks'[i].path = b
                     /\ Exists(dir', b) /\ ~Exists(dir', gz)]_vars
  /\ [](\A k \in DOMAIN sunk : sunk[k].path = tasks[sunk[k].task].path)

\* the sink was called with the compressed file of a backup that is gone
C15_Witness ==
  \E k \in DOMAIN sunk :
    LET t == tasks[sunk[k].task]
    IN  /\ t.compress /\ ~t.failed
        /\ sunk[k].path = compressedName(t.backup)
        /\ Exists(dir, sunk[k].path) /\ ~Exists(dir, t.backup)
        /\ Len(inodes[dir[sunk[k].path]].content) > 2

\* the pipeline of goroutine i ends in this step, with a failure
FailsNow(i) ==
  tasks[i].pc # "send" /\ tasks'[i].pc = "send" /\ tasks'[i].failed

\* C16 as stated: when compressLogFile fails, the goroutine sends the backup
\* name, the backup is on disk, still the file the rotation renamed and with
\* its content, no call of Write, Rotate or Close sees the failure, and the
\* sink is called with the path sent.
C16_FailedCompressionKeepsBackup ==
  /\ [][\A i \in DOMAIN tasks :
          FailsNow(i) =>
            LET b == tasks[i].backup
            IN  /\ tasks'[i].path = b
                /\ Exists(dir', b)
                /\ dir'[b] = tasks[i].ino
                /\ inodes'[dir'[b]].content = inodes[tasks[i].ino].content
                /\ UNCHANGED <<pc, op, ret>>]_vars
  /\ [](\A k \in DOMAIN sunk : sunk[k].path = tasks[sunk[k].task].path)

\* C17 as stated: when compressLogFile fails in the copy, the gzip close, the
\* source close or the removal of the source, which is after its deferred
\* closure was registered, no compressed file of that backup is left on disk.
C17_FailedCompressionRemovesDestination ==
  [][\A i \in DOMAIN tasks :
       (FailsNow(i) /\ tasks'[i].registered) =>
         ~Exists(dir', compressedName(tasks[i].backup))]_vars

\* C18 as stated: every path handed to the callback sink names a file that
\* exists when callback.Execute is called with it, in every interleaving of
\* the rotations and their goroutines.
C18_SunkPathsExist ==
  \A k \in DOMAIN sunk : sunk[k].existed

\* C19 as stated: a call whose rotation returns an error to its caller has
\* started no postRotation goroutine.
C19_FailedCallStartsNoTask ==
  [][\A p \in Procs :
       (pc[p] # "unlock" /\ pc'[p] = "unlock" /\ ret'[p].err) =>
         tasks' = tasks]_vars

\* the places a call can go to from place l
After(l) ==
  IF l = "check" THEN {"write", "unlock"}
  ELSE IF l \in {"write", "rotate", "close"} THEN {"unlock"}
  ELSE IF l = "unlock" THEN {"idle"}
  ELSE {"check", "rotate", "close"}

\* C20: Write, Rotate and Close never wait for a goroutine or for the sink.
\* Wherever the goroutines and the daemon are, running, blocked in a send or
\* inside a sink that has not returned: a caller can take the free mutex, a
\* call that holds the mutex can take its next step, and every step takes the
\* call forward to its return.
C20_CallsNeverWaitForTasks ==
  /\ [](\A p \in Callers :
          (pc[p] = "idle" /\ mutex = NoProc /\ ncalls < budget) =>
            ENABLED Lock(p))
  /\ [](\A p \in Procs :
          /\ pc[p] = "check" => ENABLED WritePrepare(p)
          /\ pc[p] = "write" => ENABLED WriteFile(p)
          /\ pc[p] = "rotate" => ENABLED Rotate(p)
          /\ pc[p] = "close" => ENABLED Close(p)
          /\ pc[p] = "unlock" => ENABLED Unlock(p))
  /\ [][\A p \in Procs : pc'[p] # pc[p] => pc'[p] \in After(pc[p])]_vars

\* a Write returns all its bytes while a goroutine is blocked in its send and
\* the sink is still running for an earlier rotation
C20_Witness ==
  \E p \in Procs :
    /\ pc[p] = "unlock"
    /\ op[p].kind = "Write"
    /\ ~ret[p].err
    /\ ret[p].n = op[p].len
    /\ op[p].len > 0
    /\ daemon.pc = "exec"
    /\ \E i \in DOMAIN tasks : tasks[i].pc = "send"

\* C21 as stated: the channel holds one pending notification.  While the
\* daemon is inside callback.Execute and no other goroutine is waiting to
\* send, a goroutine that has reached its send gets past it.
C21_ChannelHoldsOnePending ==
  \A i \in DOMAIN tasks :
    ( /\ daemon.pc = "exec"
      /\ tasks[i].pc = "send"
      /\ \A j \in DOMAIN tasks \ {i} : tasks[j].pc # "send" )
    => ENABLED Receive(i)

\* C22: callback.Execute is called by the daemon only, one call at a time: a
\* call begins only while the daemon is in its receive, so no call begins
\* while another one has not returned.
C22_SinkCallsAreSerial ==
  [][Len(sunk') # Len(sunk) =>
       /\ daemon.pc = "recv"
       /\ daemon'.pc = "exec"
       /\ Len(sunk') = Len(sunk) + 1
       /\ daemon'.arg = sunk'[Len(sunk')].path]_vars

\* a goroutine is blocked in its send while callback.Execute runs for an
\* earlier rotation
C22_Witness ==
  /\ daemon.pc = "exec"
  /\ Len(sunk) > 0
  /\ \E i \in DOMAIN tasks : tasks[i].pc = "send" /\ tasks[i].compress

\* the step takes the logger, the directory and the goroutines from the
\* current state to the result r of a run of rotate, and p returns its error
RotatesAs(p, r) ==
  /\ file' = r.file
  /\ size' = r.size
  /\ dir' = r.dir
  /\ inodes' = r.inodes
  /\ tasks' = r.tasks
  /\ ret'[p] = [n |-> 0, err |-> r.err]
  /\ op'[p].bak = r.bak
  /\ mutex' = mutex

\* C23: a firing of the rotation ticker and a call of Rotate() are the same
\* transition.  Both take the mutex when it is free, and the step either of
\* them takes under it is a run of rotate from the current state: the same
\* close, rename, chown and create, the same backup name and the same
\* goroutine started, whatever l.size is.
C23_TickerRotatesAsRotate ==
  /\ [][\A p \in Procs :
          (pc[p] = "idle" /\ pc'[p] # "idle") =>
            /\ mutex = NoProc /\ mutex' = p
            /\ p = Ticker => (op'[p].kind = "Rotate" /\ pc'[p] = "rotate")]_vars
  /\ [][\A p \in Procs :
          (pc[p] = "rotate" /\ pc'[p] # "rotate") =>
            /\ pc'[p] = "unlock"
            /\ \E fx \in SUBSET RotateFaults : \E t \in now..MaxClock :
                 /\ now' = t
                 /\ RotatesAs(p, rotate(World, RotationOption, t, fx))]_vars

\* the ticker has rotated a file that was not full: the backup is shorter
\* than the maximum, and the new file is open and empty
C23_Witness ==
  /\ pc[Ticker] = "unlock"
  /\ ~ret[Ticker].err
  /\ op[Ticker].bak \in DOMAIN dir
  /\ Len(inodes[dir[op[Ticker].bak]].content) < maxSizeBytes
  /\ Len(inodes[dir[op[Ticker].bak]].content) > 0
  /\ file # NoFile /\ size = 0 /\ ActiveContent = <<>>
  /\ Len(tasks) > 0 /\ tasks[Len(tasks)].backup = op[Ticker].bak

\* C24 as stated: a Rotate() that returns nil on a logger whose active path
\* holds a file leaves that file, with its content, under the backup name of
\* the clock reading, a new empty file at the active path, the handle open on
\* the new file, and l.size = 0.
C24_RotateRetiresActiveFile ==
  [][\A p \in Procs :
       ( /\ pc[p] = "rotate" /\ pc'[p] = "unlock"
         /\ op[p].kind = "Rotate"
         /\ Exists(dir, Filename)
         /\ ~ret'[p].err ) =>
         LET old == dir[Filename]
             b == backupName(Filename, RotationOption.LocalTime, now')
         IN  /\ op'[p].bak = b
             /\ Exists(dir', b)
             /\ dir'[b] = old
             /\ inodes'[old].content = inodes[old].content
             /\ Exists(dir', Filename)
             /\ dir'[Filename] # old
             /\ inodes'[dir'[Filename]].content = <<>>
             /\ file' # NoFile
             /\ file'.ino = dir'[Filename]
             /\ size' = 0]_vars

\* a Write of process p gets past its preparation with no handle held while
\* the active path holds a file shorter than the maximum
FirstWriteOnSmallFile(p) ==
  /\ pc[p] = "check" /\ pc'[p] # "check"
  /\ file = NoFile
  /\ Exists(dir, Filename)
  /\ Len(inodes[dir[Filename]].content) < maxSizeBytes

\* the preparation opened the file that was at the active path for append,
\* without renaming it, and the Write goes on to the file write
OpenedForAppend(p) ==
  /\ Exists(dir', Filename)
  /\ dir'[Filename] = dir[Filename]
  /\ DOMAIN dir' = DOMAIN dir
  /\ file' = [ino |-> dir[Filename], append |-> TRUE, off |-> 0]
  /\ size' = Len(inodes[dir[Filename]].content)
  /\ inodes'[dir[Filename]].content = inodes[dir[Filename]].content
  /\ pc'[p] = "write"

\* the file write puts its bytes behind the content of a file opened for append
WritesAtEnd ==
  \A p \in Procs :
    (pc[p] = "write" /\ pc'[p] # "write" /\ file.append) =>
      inodes'[file.ino].content =
        inodes[file.ino].content \o SubSeq(Buffer(op[p].id, op[p].len), 1, ret'[p].n)

NewFileFaults == {"rename", "chownOpen", "chownChown", "create"}

\* C26: when the file at the active path exists and the open for append
\* fails, Write falls back to openNewFile.  With no further failure the Write
\* goes on to its file write with a handle on a new, empty file at the active
\* path and l.size = 0; and whenever such a Write returns an error from its
\* preparation, it is the error of a step of openNewFile, never the error of
\* the failed open.
C26_FailedAppendOpenFallsBack ==
  [][\A p \in Procs :
       ( /\ pc[p] = "check" /\ pc'[p] # "check"
         /\ "openAppend" \in op'[p].hits ) =>
         /\ Exists(dir, Filename)
         /\ op'[p].hits = {"openAppend"} =>
              /\ pc'[p] = "write"
              /\ file' # NoFile
              /\ Exists(dir', Filename)
              /\ file'.ino = dir'[Filename]
              /\ file'.ino # dir[Filename]
              /\ inodes'[file'.ino].content = <<>>
              /\ size' = 0
         /\ pc'[p] = "unlock" =>
              /\ ret'[p].err
              /\ op'[p].hits \cap NewFileFaults # {}]_vars

\* a Write whose open for append failed has written all its bytes to the new
\* file, and the file it could not open is under the backup name
C26_Witness ==
  \E p \in Procs :
    /\ Returning(p) /\ op[p].kind = "Write"
    /\ op[p].hits = {"openAppend"}
    /\ ~ret[p].err /\ ret[p].n = op[p].len /\ op[p].len > 0
    /\ ActiveContent = Buffer(op[p].id, op[p].len)
    /\ op[p].bak \in DOMAIN dir
    /\ Len(inodes[dir[op[p].bak]].content) > 0

\* the arguments of cleanUpOldLogs
compress == RotationOption.Compress
period == RotationOption.RetentionPeriod

\* the names a step removes from the directory
Deleted == DOMAIN dir \ DOMAIN dir'

\* name n has the shape of a backup under the Compress option: prefix, one
\* char, a timestamp, suffix
IsBackup(n) ==
  /\ qualified(n, compress)
  /\ ~SliceFaults(n, compress)
  /\ Parse(Middle(n, compress)) # ZeroTime

\* the age of backup n at clock reading t: t minus the time in its name
Age(n, t) == t - Parse(Middle(n, compress))

\* C27 as stated: a sweep deletes a backup only if its age exceeds
\* RetentionPeriod days.
C27_DeletesOnlyOlderThanPeriod ==
  [][\A n \in Deleted : IsBackup(n) => Age(n, now) > period * Day]_vars

\* name n carries the prefix and the suffix of a backup, but what lies
\* between them is not a backup timestamp
Unparsable(n) ==
  /\ HasPrefix(n, Prefix) /\ HasSuffix(n, Suffix(compress))
  /\ n # Filename
  /\ ~SliceFaults(n, compress)
  /\ Parse(Middle(n, compress)) = ZeroTime

\* C28 as stated: an entry with the prefix and the suffix of a backup whose
\* middle part does not parse as a timestamp is never deleted by the sweep.
C28_UnparsableIsNeverDeleted ==
  [][\A n \in Deleted : ~Unparsable(n)]_vars

\* sweeper s returns in this step from a sweep that listed the directory
Completes(s) ==
  /\ sweeps[s].pc = "each"
  /\ sweeps'[s].pc = Returned(s)

\* the backups of the configured shape a completing sweep had listed
Listed(s) == {f.name : f \in {e \in sweeps[s].seen : ~e.isDir /\ IsBackup(e.name)}}

\* C29 as stated: with RetentionPeriod > 0 a sweep is under way from
\* construction, before any retention tick, and when a sweep completes every
\* listed backup older than RetentionPeriod days is gone and every younger
\* one remains.
C29_SweepKeepsYoungDropsOld ==
  [][\A s \in Sweepers :
       Completes(s) =>
         \A n \in Listed(s) :
           IF Age(n, now) > period * Day
           THEN n \notin DOMAIN dir'
           ELSE n \in DOMAIN dir']_vars

\* the directory entry named n is a directory
DirectoryNamed(n) == IsDir(SweepWorld, n)

\* C30: the sweep never deletes the active file, never deletes a directory,
\* and never deletes an entry without the prefix of the active file's stem or
\* without the suffix the Compress option selects.
C30_SweepDeletesOnlyFilesOfBackupShape ==
  [][\A n \in Deleted :
       /\ n # Filename
       /\ ~DirectoryNamed(n)
       /\ HasPrefix(n, Prefix)
       /\ HasSuffix(n, Suffix(compress))]_vars

\* the sweep started at construction has gone through the whole listing and
\* returned; the active file, a directory named like an expired backup and an
\* expired backup of the shape the Compress option does not select are still
\* in the directory
C30_Witness ==
  /\ sweeps["first"].pc = "done"
  /\ Filename \in DOMAIN dir
  /\ \E n \in DOMAIN dir :
       /\ DirectoryNamed(n)
       /\ IsBackup(n) /\ Age(n, now) > period * Day
  /\ \E n \in DOMAIN dir :
       /\ ~DirectoryNamed(n)
       /\ HasPrefix(n, Prefix) /\ ~HasSuffix(n, Suffix(compress))
       /\ \E t \in Stamps :
            /\ now - t > period * Day
            /\ n = Prefix \o <<"-", Format(t)>> \o Suffix(~compress)

\* sweeper s has gone as far as its sweep goes: cleanUpOldLogs returned, or
\* it stands at the entry whose slice is out of range
Over(s) ==
  /\ sweeps[s].seen # {}
  /\ \/ sweeps[s].pc \in {"done", "wait"}
     \/ /\ sweeps[s].pc = "panic"
        /\ sweeps[s].list # <<>>
        /\ ~sweeps[s].list[1].isDir
        /\ qualified(sweeps[s].list[1].name, compress)
        /\ SliceFaults(sweeps[s].list[1].name, compress)

\* the listed files a sweep is to delete: backups of the configured shape
\* older than the period
Eligible(s) ==
  {n \in Listed(s) : Age(n, now) > period * Day}

\* C31: within one sweep a failure to delete one eligible entry does not stop
\* the sweep: every eligible entry whose os.Remove did not fail is deleted,
\* and no caller of Write, Rotate or Close gets an error from the sweep.
C31_DeleteFailureDoesNotStopSweep ==
  \A s \in Sweepers :
    Over(s) =>
      /\ \A n \in Eligible(s) \ sweeps[s].failed : n \notin DOMAIN dir
      /\ \A p \in Procs : ~ret[p].err

\* a sweep has returned: os.Remove failed for one old backup, which is still
\* there, and another old backup it listed is deleted
C31_Witness ==
  \E s \in Sweepers :
    /\ sweeps[s].pc = Returned(s)
    /\ \E n \in Eligible(s) : n \in sweeps[s].failed /\ n \in DOMAIN dir
    /\ \E n \in Eligible(s) : n \notin sweeps[s].failed /\ n \notin DOMAIN dir

\* New has returned the Logger
Constructed == daemon.pc # "off"

C33_RotationsReachOwnSinkOnly ==
  /\ second.sunk = <<>>
  /\ \A i \in DOMAIN tasks :
       tasks[i].pc = "done" => \E k \in DOMAIN sunk : sunk[k].task = i

\* C34 as stated: two rotations of a Logger never use the same backup path:
\* a step that renames the active file gives the directory a backup name it
\* did not have, also when the clock has not moved since the last rotation.
C34_RotationsUseFreshBackupPath ==
  [][renames' > renames =>
       \E n \in DOMAIN dir' : n # Filename /\ n \notin DOMAIN dir]_vars

\* the bytes of the file named n, and the bytes in the files of the directory
BytesOf(n) == {inodes[dir[n]].content[k] : k \in DOMAIN inodes[dir[n]].content}
OnDisk == UNION {BytesOf(n) : n \in DOMAIN dir}

\* no byte is in the directory twice
NoByteTwice ==
  /\ \A n, m \in DOMAIN dir : n # m => BytesOf(n) \cap BytesOf(m) = {}
  /\ \A n \in DOMAIN dir :
       \A j, k \in DOMAIN inodes[dir[n]].content :
         j # k => inodes[dir[n]].content[j] # inodes[dir[n]].content[k]

\* C35 as stated, in its last words: with compression and retention off and
\* no filesystem failure, the backups and the active file together hold what
\* the log file held at first and what was written: no step of a Write,
\* Rotate, Close or timer rotation loses a byte or leaves a byte twice.
C35_RotationKeepsEveryByte ==
  [][(\A b \in OnDisk : b \in OnDisk') /\ NoByteTwice']_vars

\* the length of the active file on disk, 0 when there is none
currentSize == IF ActiveExists THEN Len(ActiveContent) ELSE 0

\* process p goes through the checks of Write in this step
Checks(p) == pc[p] = "check" /\ pc'[p] # "check"

\* C36: Write(p) rotates if and only if currentSize + len(p) > maxSizeBytes
\* at the check; a buffer that fits exactly is accepted without a rotation.
C36_RotatesExactlyOnOverflow ==
  [][\A p \in Procs :
       Checks(p) =>
         IF currentSize + op[p].len > maxSizeBytes
         THEN renames' = renames + 1
         ELSE /\ renames' = renames
              /\ pc'[p] = "write"
              /\ ActiveExists => ActiveContent' = ActiveContent]_vars

\* a Write whose buffer filled the file exactly has returned: all bytes are
\* appended, the file is at the maximum size, and no rotation took place
C36_Witness ==
  \E p \in Procs :
    /\ Returning(p) /\ op[p].kind = "Write"
    /\ ~ret[p].err /\ ret[p].n = op[p].len /\ op[p].len > 0
    /\ ~op[p].over /\ renames = 0
    /\ Len(ActiveContent) = maxSizeBytes
    /\ size = maxSizeBytes

\* C37 as stated: a retention sweep meets no run-time fault, whatever names
\* the directory holds, names of prefix and suffix only included.
C37_SweepNeverFaults ==
  \A s \in Sweepers : sweeps[s].pc # "panic"

WriteAfterClose(p) ==
  /\ pc[p] = "check" /\ pc'[p] # "check"
  /\ op[p].wasClosed
  /\ Exists(dir, Filename)

\* a Write that was called after a Close returns all its bytes, which are
\* behind the bytes the file held
AppendsAll(p) ==
  /\ ret'[p] = [n |-> op[p].len, err |-> FALSE]
  /\ Exists(dir', Filename)
  /\ inodes'[dir'[Filename]].content =
       inodes[file.ino].content \o Buffer(op[p].id, op[p].len)

\* C39 as stated: a Write issued after Close reopens the existing active file
\* for append, adopts its size on disk, and succeeds, with the bytes written
\* before the Close in front of the new ones.
C39_WriteAfterCloseAppends ==
  /\ [][\A p \in Procs : WriteAfterClose(p) => OpenedForAppend(p)]_vars
  /\ [][\A p \in Procs :
          (pc[p] = "write" /\ pc'[p] # "write" /\ op[p].wasClosed) =>
            AppendsAll(p)]_vars

\* C39, amended: a Write called after a Close that finds no handle held
\* does so when the buffer fits into the file and no system call of the Write
\* fails; and every Write called after a Close whose system calls succeed
\* returns all its bytes, which are behind the bytes of the file it holds.
C39_WriteAfterCloseWithRoomAppends ==
  /\ [][\A p \in Procs :
          ( /\ WriteAfterClose(p)
            /\ file = NoFile
            /\ op'[p].hits = {}
            /\ Len(inodes[dir[Filename]].content) + op[p].len <= maxSizeBytes ) =>
            OpenedForAppend(p)]_vars
  /\ [][\A p \in Procs :
          ( /\ pc[p] = "write" /\ pc'[p] # "write"
            /\ op[p].wasClosed
            /\ op'[p].hits = {} ) =>
            AppendsAll(p)]_vars

\* a Write, a Close and a second Write have returned: the file holds the
\* bytes of the first Write and behind them those of the second
C39_Witness ==
  \E p \in Procs :
    /\ Returning(p) /\ op[p].kind = "Write" /\ op[p].wasClosed
    /\ op[p].id = 2 /\ op[p].hits = {} /\ renames = 0
    /\ ~ret[p].err /\ ret[p].n = op[p].len /\ op[p].len > 0
    /\ file # NoFile /\ file.append
    /\ \E n \in 1..maxSizeBytes :
         ActiveContent = Buffer(1, n) \o Buffer(2, op[p].len)
    /\ size = Len(ActiveContent)

====
